---- MODULE Spec2Model ----
\* Quiz generation, persistence and grading of the trivia tool
\* (src/app.py, src/ai_service.py).
\*
\* Text is modelled as a sequence of tokens.  A token is one character
\* (" ", "\n", ".", ")", a digit, a letter A..E), one of the two literal
\* markers the parser looks for ("Correct Answer:", "Explanation:"), or a word
\* that contains none of these.  Every string operation of the code is computed
\* on such sequences.
EXTENDS Integers, Sequences, FiniteSets, TLC

VARIABLES
    GROQ_API_KEY,   \* ai_service.GROQ_API_KEY: <<>> when the variable is unset
    quizzes,        \* table Quiz, in primary-key order (id = position)
    questions,      \* table Question, in primary-key order (id = position)
    session,        \* the Flask session of the client: a dict, key -> value
    uploads,        \* file names written under UPLOAD_FOLDER
    model_calls,    \* chat completion requests issued by the latest request
    completion,     \* the completion text of the model service (latest / pending)
    stray,          \* number of ignorable lines the model service added to it
    request,        \* the latest HTTP request: handler and arguments
    response        \* the latest HTTP response: handler, status, body

vars == <<GROQ_API_KEY, quizzes, questions, session, uploads, model_calls,
          completion, stray, request, response>>

----------------------------------------------------------------------------
\* Bounds of the model.

MaxQuizzes == 2     \* Quiz rows the store may hold in Spec
MaxBlocks == 2      \* question blocks of a completion in SpecParse
MaxStray == 2       \* ignorable lines added to a completion in SpecNoise

----------------------------------------------------------------------------
\* Strings.

NL == "\n"
CorrectAnswerMarker == "Correct Answer:"
ExplanationMarker == "Explanation:"

Whitespace == {" ", "\t", NL}
Digits == {"0", "1", "2", "3", "4", "5", "6", "7", "8", "9"}
OptionLetters == {"A", "B", "C", "D"}

\* Length of the longest prefix of s whose tokens all lie in S.
PrefixIn(s, S) ==
    LET bad == {i \in 1..Len(s) : s[i] \notin S}
    IN  IF bad = {} THEN Len(s)
        ELSE (CHOOSE i \in bad : \A j \in bad : i <= j) - 1

\* Length of the longest suffix of s whose tokens all lie in S.
SuffixIn(s, S) ==
    LET bad == {i \in 1..Len(s) : s[i] \notin S}
    IN  IF bad = {} THEN Len(s)
        ELSE Len(s) - (CHOOSE i \in bad : \A j \in bad : i >= j)

\* str.strip()
Strip(s) ==
    LET l == PrefixIn(s, Whitespace)
    IN  IF l = Len(s) THEN <<>>
        ELSE SubSeq(s, l + 1, Len(s) - SuffixIn(s, Whitespace))

\* str.split('\n'): "" gives [""], a trailing separator gives a last "".
RECURSIVE Split(_)
Split(s) ==
    LET at == {i \in 1..Len(s) : s[i] = NL}
        n == CHOOSE i \in at : \A j \in at : i <= j
    IN  IF at = {} THEN <<s>>
        ELSE <<SubSeq(s, 1, n - 1)>> \o Split(SubSeq(s, n + 1, Len(s)))

\* '\n'.join(lines)
RECURSIVE Join(_)
Join(lines) ==
    IF lines = <<>> THEN <<>>
    ELSE IF Len(lines) = 1 THEN lines[1]
    ELSE lines[1] \o <<NL>> \o Join(Tail(lines))

\* question_number_regex.match(line): length of the match of ^\d+\.\s*, 0 if none.
question_number_regex(line) ==
    LET d == PrefixIn(line, Digits)
    IN  IF d >= 1 /\ Len(line) >= d + 1 /\ line[d + 1] = "."
        THEN d + 1 + PrefixIn(SubSeq(line, d + 2, Len(line)), Whitespace)
        ELSE 0

\* question_number_regex.sub('', line): the pattern is anchored, so at most the
\* one match at the start of the line is removed.
question_number_sub(line) ==
    SubSeq(line, question_number_regex(line) + 1, Len(line))

\* option_regex.match(line): ^[A-D]\)\s*
option_regex(line) ==
    Len(line) >= 2 /\ line[1] \in OptionLetters /\ line[2] = ")"

\* line.startswith(marker)
startswith(line, marker) == Len(line) >= 1 /\ line[1] = marker

\* line.replace(marker, ""): every occurrence of the marker is removed.
replace(line, marker) == SelectSeq(line, LAMBDA t : t # marker)

\* str(n) for n >= 0, in decimal.
DigitChars == <<"0", "1", "2", "3", "4", "5", "6", "7", "8", "9">>

RECURSIVE str(_)
str(n) ==
    IF n < 10 THEN <<DigitChars[n + 1]>>
    ELSE str(n \div 10) \o <<DigitChars[(n % 10) + 1]>>

\* dict.get(key): <<>> stands for None, <<v>> for the value v.
get(dict, key) == IF key \in DOMAIN dict THEN <<dict[key]>> ELSE <<>>

\* dict[key] = value
put(dict, key, value) ==
    [k \in DOMAIN dict \cup {key} |-> IF k = key THEN value ELSE dict[k]]

----------------------------------------------------------------------------
\* The parser of generate_quiz.

NewParse == [current_question |-> <<>>, structured_questions |-> <<>>]

\* ParseLine as it would be if a blank line closed the open record.
ParseLine_BlankCloses(st, raw) ==
    LET line == Strip(raw)
        cur == st.current_question
    IN  IF line = <<>> THEN
            [current_question |-> <<>>,
             structured_questions |->
                IF cur # <<>> THEN Append(st.structured_questions, cur[1])
                ELSE st.structured_questions]
        ELSE IF question_number_regex(line) > 0 THEN
            [current_question |->
                <<[question_text |-> Strip(question_number_sub(line)),
                   options |-> <<>>,
                   correct_answer |-> <<>>,
                   explanation |-> <<>>]>>,
             structured_questions |->
                IF cur # <<>> THEN Append(st.structured_questions, cur[1])
                ELSE st.structured_questions]
        ELSE IF option_regex(line) /\ cur # <<>> THEN
            [st EXCEPT !.current_question =
                <<[cur[1] EXCEPT !.options = Append(@, line)]>>]
        ELSE IF startswith(line, CorrectAnswerMarker) /\ cur # <<>> THEN
            [st EXCEPT !.current_question =
                <<[cur[1] EXCEPT !.correct_answer =
                    Strip(replace(line, CorrectAnswerMarker))]>>]
        ELSE IF startswith(line, ExplanationMarker) /\ cur # <<>> THEN
            [st EXCEPT !.current_question =
                <<[cur[1] EXCEPT !.explanation =
                    Strip(replace(line, ExplanationMarker))]>>]
        ELSE st

\* One iteration of the loop over the lines.  current_question is <<>> for the
\* empty dict (falsy) and <<record>> once a question line was seen.
ParseLine(st, raw) ==
    LET line == Strip(raw)
        cur == st.current_question
    IN  IF line = <<>> THEN st
        ELSE IF question_number_regex(line) > 0 THEN
            [current_question |->
                <<[question_text |-> Strip(question_number_sub(line)),
                   options |-> <<>>,
                   correct_answer |-> <<>>,
                   explanation |-> <<>>]>>,
             structured_questions |->
                IF cur # <<>> THEN Append(st.structured_questions, cur[1])
                ELSE st.structured_questions]
        ELSE IF option_regex(line) /\ cur # <<>> THEN
            [st EXCEPT !.current_question =
                <<[cur[1] EXCEPT !.options = Append(@, line)]>>]
        ELSE IF startswith(line, CorrectAnswerMarker) /\ cur # <<>> THEN
            [st EXCEPT !.current_question =
                <<[cur[1] EXCEPT !.correct_answer =
                    Strip(replace(line, CorrectAnswerMarker))]>>]
        ELSE IF startswith(line, ExplanationMarker) /\ cur # <<>> THEN
            [st EXCEPT !.current_question =
                <<[cur[1] EXCEPT !.explanation =
                    Strip(replace(line, ExplanationMarker))]>>]
        ELSE st

RECURSIVE ParseLines(_, _)
ParseLines(st, lines) ==
    IF lines = <<>> THEN st
    ELSE ParseLines(ParseLine(st, Head(lines)), Tail(lines))

\* StructuredQuestions as it would be if the record still open after the last
\* line were left out.
StructuredQuestions_NoLast(generated_questions) ==
    ParseLines(NewParse, Split(Strip(generated_questions))).structured_questions

\* The list structured_questions after the loop and the final append.
StructuredQuestions(generated_questions) ==
    LET st == ParseLines(NewParse, Split(Strip(generated_questions)))
    IN  IF st.current_question # <<>>
        THEN Append(st.structured_questions, st.current_question[1])
        ELSE st.structured_questions

\* IsPersistable as it would be if records with more than four options passed.
IsPersistable_AtLeastFour(q_data) ==
    /\ Len(q_data.options) >= 4
    /\ q_data.question_text # <<>>
    /\ q_data.correct_answer # <<>>
    /\ q_data.explanation # <<>>

\* The condition under which a parsed record becomes a Question row.
IsPersistable(q_data) ==
    /\ Len(q_data.options) = 4
    /\ q_data.question_text # <<>>
    /\ q_data.correct_answer # <<>>
    /\ q_data.explanation # <<>>

\* Question(...) for a record, with the primary key the store assigns.
NewQuestion(id, quiz_id, q_data) ==
    [id |-> id,
     quiz_id |-> quiz_id,
     question_text |-> q_data.question_text,
     option_a |-> q_data.options[1],
     option_b |-> q_data.options[2],
     option_c |-> q_data.options[3],
     option_d |-> q_data.options[4],
     correct_answer |-> q_data.correct_answer,
     explanation |-> q_data.explanation]

\* The Question rows the persistence loop adds for a new quiz.
NewQuestions(quiz_id, generated_questions) ==
    LET kept == SelectSeq(StructuredQuestions(generated_questions), IsPersistable)
    IN  [i \in 1..Len(kept) |-> NewQuestion(Len(questions) + i, quiz_id, kept[i])]

----------------------------------------------------------------------------
\* Uploaded files.  A file name is a string; <<>> is the empty name.

ALLOWED_EXTENSIONS == {"txt", "md", "doc", "docx"}
UPLOAD_FOLDER == <<"uploads">>

\* str.lower() on an extension token.
lower(t) == IF t = "TXT" THEN "txt" ELSE IF t = "Md" THEN "md" ELSE t

\* name.rsplit('.', 1)[1]: what follows the last dot (the name holds one).
AfterLastDot(name) ==
    LET at == {i \in 1..Len(name) : name[i] = "."}
        n == CHOOSE i \in at : \A j \in at : i >= j
    IN  SubSeq(name, n + 1, Len(name))

allowed_file(filename) ==
    /\ \E i \in 1..Len(filename) : filename[i] = "."
    /\ LET ext == AfterLastDot(filename)
       IN  Len(ext) = 1 /\ lower(ext[1]) \in ALLOWED_EXTENSIONS

\* werkzeug secure_filename, as far as these names go: leading and trailing
\* dots are stripped.
secure_filename(filename) ==
    LET l == PrefixIn(filename, {"."})
    IN  IF l = Len(filename) THEN <<>>
        ELSE SubSeq(filename, l + 1, Len(filename) - SuffixIn(filename, {"."}))

\* os.path.join(UPLOAD_FOLDER, filename)
PathOf(filename) == UPLOAD_FOLDER \o <<"/">> \o filename

\* read_file_content(filepath) raises IndexError when the path holds no dot;
\* otherwise it returns text (which nothing below depends on).
read_file_content_raises(filepath) ==
    ~ \E i \in 1..Len(filepath) : filepath[i] = "."

\* The upload loop: the paths collected, the names saved, and the name that
\* stopped the loop (<<>> when none did).
RECURSIVE UploadLoop(_, _)
UploadLoop(acc, files) ==
    IF files = <<>> THEN acc
    ELSE LET filename == Head(files)
         IN  IF filename = <<>> THEN UploadLoop(acc, Tail(files))
             ELSE IF allowed_file(filename) THEN
                 UploadLoop([acc EXCEPT
                                !.uploaded_filepaths =
                                    Append(@, PathOf(secure_filename(filename))),
                                !.saved = @ \cup {secure_filename(filename)}],
                            Tail(files))
             ELSE [acc EXCEPT !.rejected = <<filename>>]

NoUploads == [uploaded_filepaths |-> <<>>, saved |-> {}, rejected |-> <<>>]

----------------------------------------------------------------------------
\* Responses.

Redirect(handler, target) ==
    [handler |-> handler, status |-> 302, body |-> <<"redirect", target>>]

Text(handler, status, text) ==
    [handler |-> handler, status |-> status, body |-> text]

Json(handler, status, data) ==
    [handler |-> handler, status |-> status, body |-> data]

\* What Flask answers when a handler raises.
InternalServerError(handler) ==
    [handler |-> handler, status |-> 500, body |-> <<"Internal Server Error">>]

\* What get_or_404 answers when the row is missing.
NotFound(handler) ==
    [handler |-> handler, status |-> 404, body |-> [error |-> "Not Found"]]

----------------------------------------------------------------------------
\* The store.

QuizIds == {quizzes[i].id : i \in 1..Len(quizzes)}

\* QueryGet as it would be if it fell back to the first row.
QueryGet_First(quiz_id) ==
    IF quiz_id \in QuizIds THEN <<quizzes[quiz_id]>>
    ELSE IF quizzes # <<>> THEN <<quizzes[1]>> ELSE <<>>

\* Quiz.query.get(quiz_id): <<>> for None.
QueryGet(quiz_id) ==
    IF quiz_id \in QuizIds THEN <<quizzes[quiz_id]>> ELSE <<>>

\* quiz.questions: the rows of the quiz, in primary-key order.
QuestionsOf(quiz_id) ==
    SelectSeq(questions, LAMBDA q : q.quiz_id = quiz_id)

\* Question.to_dict
to_dict(q) ==
    [id |-> q.id,
     question_text |-> q.question_text,
     options |-> <<q.option_a, q.option_b, q.option_c, q.option_d>>,
     correct_answer |-> q.correct_answer,
     explanation |-> q.explanation]

----------------------------------------------------------------------------
\* POST /generate_quiz.
\*   form_files      <<>> when the form has no 'sourceFile' part, else <<files>>
\*   num_questions,
\*   time_limit      <<>> when the field is missing or no integer, else <<n>>
\*   reply           what the model service does if it is asked:
\*                   <<text>> returns text, <<>> raises

\* ModelRequests as it would be if a failed request were sent again.
ModelRequests_Retry == IF GROQ_API_KEY = <<>> THEN 0 ELSE 2

\* generate_quiz_questions: raises ValueError before any request when the key
\* is unset; otherwise issues one request.
ModelRequests == IF GROQ_API_KEY = <<>> THEN 0 ELSE 1

generate_quiz(form_files, num_questions, time_limit, reply) ==
    LET h == "generate_quiz"
        up == UploadLoop(NoUploads, form_files[1])
        quiz_id == Len(quizzes) + 1
        added == NewQuestions(quiz_id, reply[1])
    IN  IF form_files = <<>> THEN
            /\ response' = Redirect(h, "index")
            /\ model_calls' = 0
            /\ UNCHANGED <<quizzes, questions, session, uploads, completion>>
        ELSE IF up.rejected # <<>> THEN
            /\ response' = Text(h, 400,
                    <<"File type not allowed for ">> \o up.rejected[1] \o <<"!">>)
            /\ uploads' = uploads \cup up.saved
            /\ model_calls' = 0
            /\ UNCHANGED <<quizzes, questions, session, completion>>
        ELSE IF up.uploaded_filepaths = <<>> THEN
            /\ response' = Redirect(h, "index")
            /\ model_calls' = 0
            /\ UNCHANGED <<quizzes, questions, session, uploads, completion>>
        ELSE IF \E i \in 1..Len(up.uploaded_filepaths) :
                    read_file_content_raises(up.uploaded_filepaths[i]) THEN
            /\ response' = InternalServerError(h)
            /\ uploads' = uploads \cup up.saved
            /\ model_calls' = 0
            /\ UNCHANGED <<quizzes, questions, session, completion>>
        ELSE IF GROQ_API_KEY = <<>> THEN
            /\ response' = Text(h, 500,
                    <<"Error: ", "GROQ_API_KEY not found in environment variables.">>)
            /\ uploads' = uploads \cup up.saved
            /\ model_calls' = ModelRequests
            /\ UNCHANGED <<quizzes, questions, session, completion>>
        ELSE IF reply = <<>> THEN
            /\ response' = Text(h, 500,
                    <<"An error occurred during quiz generation: ", "APIError">>)
            /\ uploads' = uploads \cup up.saved
            /\ model_calls' = ModelRequests
            /\ UNCHANGED <<quizzes, questions, session, completion>>
        ELSE IF num_questions = <<>> \/ time_limit = <<>> THEN
            \* NOT NULL constraint of Quiz: the first commit raises
            /\ response' = InternalServerError(h)
            /\ uploads' = uploads \cup up.saved
            /\ model_calls' = ModelRequests
            /\ completion' = reply[1]
            /\ UNCHANGED <<quizzes, questions, session>>
        ELSE
            /\ quizzes' = Append(quizzes, [id |-> quiz_id,
                                           num_questions |-> num_questions[1],
                                           time_limit |-> time_limit[1]])
            /\ questions' = questions \o added
            /\ session' = put(put(put(session, <<"quiz_id">>, quiz_id),
                                  <<"num_questions">>, num_questions[1]),
                              <<"time_limit">>, time_limit[1])
            /\ uploads' = uploads \cup up.saved
            /\ model_calls' = ModelRequests
            /\ completion' = reply[1]
            /\ response' = Redirect(h, "quiz_loading")

----------------------------------------------------------------------------
\* GET /api/quiz/<quiz_id>

get_quiz_data(quiz_id) ==
    LET h == "get_quiz_data"
        quiz == QueryGet(quiz_id)
        rows == QuestionsOf(quiz_id)
    IN  IF quiz = <<>> THEN NotFound(h)
        ELSE Json(h, 200,
                  [id |-> quiz[1].id,
                   num_questions |-> quiz[1].num_questions,
                   time_limit |-> quiz[1].time_limit,
                   questions |-> [i \in 1..Len(rows) |-> to_dict(rows[i])]])

----------------------------------------------------------------------------
\* GET /quiz_loading, GET /quiz, GET /results/<quiz_id>, GET /

\* "not x" for a session value: absent (None) or 0.
Falsy(v) == v = <<>> \/ v[1] = 0

quiz_loading ==
    LET h == "quiz_loading"
    IN  IF \/ Falsy(get(session, <<"quiz_id">>))
           \/ Falsy(get(session, <<"num_questions">>))
           \/ Falsy(get(session, <<"time_limit">>))
        THEN Redirect(h, "index")
        ELSE Redirect(h, "quiz")

quiz ==
    LET h == "quiz"
    IN  IF \/ Falsy(get(session, <<"quiz_id">>))
           \/ Falsy(get(session, <<"num_questions">>))
           \/ Falsy(get(session, <<"time_limit">>))
        THEN Redirect(h, "index")
        ELSE Json(h, 200, [template |-> "quiz.html",
                           quiz_id |-> session[<<"quiz_id">>],
                           num_questions |-> session[<<"num_questions">>],
                           time_limit |-> session[<<"time_limit">>]])

results(quiz_id) ==
    LET h == "results"
        found == QueryGet(quiz_id)
    IN  IF found = <<>> THEN Redirect(h, "index")
        ELSE Json(h, 200, [template |-> "results.html",
                           quiz_id |-> quiz_id,
                           num_questions |-> found[1].num_questions])

index == Json("index", 200, [template |-> "index.html"])

----------------------------------------------------------------------------
\* Grading.  A float is kept as an exact fraction [num, den]; round(x, 2) is
\* kept as a whole number of hundredths.

Zero == [num |-> 0, den |-> 1]

\* 100 / total_questions
score_per_question(total_questions) == [num |-> 100, den |-> total_questions]

\* x + y
Plus(x, y) == [num |-> x.num * y.den + y.num * x.den, den |-> x.den * y.den]

\* round(x, 2), in hundredths; a tie goes to the even neighbour.
round2(x) ==
    LET n == x.num * 100
        q == n \div x.den
        r == n % x.den
    IN  IF 2 * r > x.den THEN q + 1
        ELSE IF 2 * r = x.den THEN q + (q % 2)
        ELSE q

\* f'quiz_{quiz_id}_user_answers'
AnswersKey(quiz_id) == <<"quiz_">> \o str(quiz_id) \o <<"_user_answers">>

\* IsCorrect as it would be if any answer that was given counted.
IsCorrect_AnyAnswer(user_answer, question) == user_answer # <<>>

\* user_answer == question.correct_answer, user_answer being <<>> for None
IsCorrect(user_answer, question) == user_answer = <<question.correct_answer>>

\* The grading loop of submit_quiz over the questions still to grade.
RECURSIVE SubmitLoop(_, _, _, _)
SubmitLoop(acc, rows, user_answers, per_question) ==
    IF rows = <<>> THEN acc
    ELSE LET question == Head(rows)
             user_answer == get(user_answers, str(question.id))
             is_correct == IsCorrect(user_answer, question)
         IN  SubmitLoop(
                [score |-> IF is_correct THEN acc.score + 1 ELSE acc.score,
                 percentage_score |->
                    IF is_correct THEN Plus(acc.percentage_score, per_question)
                    ELSE acc.percentage_score,
                 results_breakdown |-> Append(acc.results_breakdown,
                    [question_id |-> question.id,
                     question_text |-> question.question_text,
                     user_answer |-> user_answer,
                     correct_answer |-> question.correct_answer,
                     is_correct |-> is_correct,
                     options |-> <<question.option_a, question.option_b,
                                   question.option_c, question.option_d>>])],
                Tail(rows), user_answers, per_question)

\* The grading loop of get_quiz_results.
RECURSIVE ResultsLoop(_, _, _, _)
ResultsLoop(acc, rows, user_answers, total_questions) ==
    IF rows = <<>> THEN acc
    ELSE LET question == Head(rows)
             user_answer == get(user_answers, str(question.id))
             is_correct == IsCorrect(user_answer, question)
         IN  ResultsLoop(
                [score |-> IF is_correct THEN acc.score + 1 ELSE acc.score,
                 percentage_score |->
                    IF is_correct /\ total_questions > 0
                    THEN Plus(acc.percentage_score,
                              score_per_question(total_questions))
                    ELSE acc.percentage_score,
                 results_breakdown |-> Append(acc.results_breakdown,
                    [question_id |-> question.id,
                     question_text |-> question.question_text,
                     user_answer |-> user_answer,
                     correct_answer |-> question.correct_answer,
                     is_correct |-> is_correct,
                     options |-> <<question.option_a, question.option_b,
                                   question.option_c, question.option_d>>,
                     explanation |-> question.explanation])],
                Tail(rows), user_answers, total_questions)

NoGrades == [score |-> 0, percentage_score |-> Zero, results_breakdown |-> <<>>]

\* POST /submit_quiz: the response (the session write is in SubmitQuiz).
submit_quiz(quiz_id, user_answers) ==
    LET h == "submit_quiz"
        found == QueryGet(quiz_id)
        rows == QuestionsOf(quiz_id)
        total_questions == Len(rows)
        g == SubmitLoop(NoGrades, rows, user_answers,
                        score_per_question(total_questions))
    IN  IF found = <<>> THEN Json(h, 404, [error |-> "Quiz not found"])
        ELSE IF total_questions = 0 THEN
            Json(h, 200, [score |-> 0, total_questions |-> 0,
                          percentage_score |-> 0])
        ELSE Json(h, 200,
                  [quiz_id |-> quiz_id,
                   score |-> g.score,
                   total_questions |-> total_questions,
                   percentage_score |-> round2(g.percentage_score),
                   results_breakdown |-> g.results_breakdown])

\* GET /api/quiz-results/<quiz_id>
get_quiz_results(quiz_id) ==
    LET h == "get_quiz_results"
        found == QueryGet(quiz_id)
        rows == QuestionsOf(quiz_id)
        total_questions == Len(rows)
        stored == get(session, AnswersKey(quiz_id))
        user_answers_from_session == IF stored = <<>> THEN <<>> ELSE stored[1]
        g == ResultsLoop(NoGrades, rows, user_answers_from_session,
                         total_questions)
    IN  IF found = <<>> THEN Json(h, 404, [error |-> "Quiz not found"])
        ELSE Json(h, 200,
                  [quiz_id |-> found[1].id,
                   score |-> g.score,
                   total_questions |-> total_questions,
                   percentage_score |-> round2(g.percentage_score),
                   results_breakdown |-> g.results_breakdown])

----------------------------------------------------------------------------
\* What the clients and the model service send.

QuestionLine(number, text) == number \o <<".", " ">> \o text
OptionLine(letter, text) == <<letter, ")", " ">> \o text
CorrectAnswerLine(value) == <<CorrectAnswerMarker, " ">> \o value
ExplanationLine(value) == <<ExplanationMarker, " ">> \o value

Q_What == QuestionLine(<<"1">>, <<"What", "?">>)
Q_Why == <<"1", "2", ".", "Why", "?">>
Q_NoText == QuestionLine(<<"3">>, <<>>)

OptionLinesPool ==
    <<OptionLine("A", <<"a">>), OptionLine("B", <<"b">>), <<"C", ")", "c">>,
      OptionLine("D", <<"d">>), OptionLine("A", <<"e">>)>>

CA_Full == CorrectAnswerLine(<<"B", ")", " ", "b">>)
CA_Bare == CorrectAnswerLine(<<"b">>)
CA_Twice == CorrectAnswerLine(<<"B", ")", " ", "b", " ", "not", " ",
                                CorrectAnswerMarker, " ", "a">>)
CA_NoValue == CorrectAnswerLine(<<>>)
EX_Plain == ExplanationLine(<<"because">>)
EX_Twice == ExplanationLine(<<"see", " ", ExplanationMarker, " ", "above">>)

\* A block: a question line, the first n option lines, then the given
\* 'Correct Answer:' and 'Explanation:' lines (each <<>> or <<line>>).
Block(q, n, ca, ex) == <<q>> \o SubSeq(OptionLinesPool, 1, n) \o ca \o ex

BlockPool ==
    {Block(q, 4, <<ca>>, <<EX_Plain>>) :
        q \in {Q_What, Q_Why}, ca \in {CA_Full, CA_Bare, CA_Twice}}
    \cup {Block(Q_Why, 4, <<CA_Full>>, <<EX_Twice>>)}
    \cup {Block(q, 4, <<CA_Bare>>, <<>>) : q \in {Q_What, Q_Why}}
    \cup {Block(Q_What, n, <<CA_Full>>, <<EX_Plain>>) : n \in {3, 5}}
    \cup {Block(Q_NoText, 4, <<CA_Full>>, <<EX_Plain>>),
          Block(Q_What, 4, <<>>, <<EX_Plain>>),
          Block(Q_What, 4, <<CA_NoValue>>, <<EX_Plain>>),
          Block(Q_What, 4, <<CA_Full>>, <<>>)}

RECURSIVE Flatten(_)
Flatten(blocks) ==
    IF blocks = <<>> THEN <<>> ELSE Head(blocks) \o Flatten(Tail(blocks))

\* The example the prompt of generate_quiz_questions gives as the format.
PromptExample ==
    Join(<<QuestionLine(<<"1">>, <<"Question text?">>),
           OptionLine("A", <<"Option A">>), OptionLine("B", <<"Option B">>),
           OptionLine("C", <<"Option C">>), OptionLine("D", <<"Option D">>),
           CorrectAnswerLine(<<"Option A">>),
           <<>>,
           QuestionLine(<<"2">>, <<"Second question text?">>),
           OptionLine("A", <<"Option A">>), OptionLine("B", <<"Option B">>),
           OptionLine("C", <<"Option C">>), OptionLine("D", <<"Option D">>),
           CorrectAnswerLine(<<"Option B">>)>>)

\* Completions of up to MaxBlocks blocks of the pool.
BlockCompletions ==
    {Join(Flatten(bs)) : bs \in UNION {[1..n -> BlockPool] : n \in 0..MaxBlocks}}
    \cup {PromptExample}

Good_What == Block(Q_What, 4, <<CA_Full>>, <<EX_Plain>>)
Good_Why == Block(Q_Why, 4, <<CorrectAnswerLine(<<"A", ")", " ", "a">>)>>, <<EX_Twice>>)

\* The completions the model service returns in SpecGrade: quizzes of zero,
\* one and two questions.
GradedCompletions == {PromptExample, Join(Good_What), Join(Good_What \o <<<<>>>> \o Good_Why)}

\* The completions the model service returns in Spec.
SmallCompletions ==
    {<<>>,
     Join(Good_What),
     PromptExample,
     Join(Block(Q_What, 3, <<CA_Full>>, <<EX_Plain>>) \o Good_Why),
     Join(Block(Q_What, 5, <<CA_Bare>>, <<EX_Plain>>))}

FileLists ==
    {<< <<>> >>,
     << <<"notes", ".", "txt">> >>,
     << <<"notes", ".", "txt">>, <<"tool", ".", "exe">> >>,
     << <<"notes", ".", "txt">>, <<".", "Md">> >>}

GoodFiles == << << <<"notes", ".", "txt">> >> >>

FormFiles == {<<>>} \cup {<<files>> : files \in FileLists}
NumQuestionsField == {<<>>, <<2>>}
TimeLimitField == {<<>>, <<5>>}
QuizIdInputs == 1..(MaxQuizzes + 1)

\* The answers a client may submit for a quiz: an option string for any of
\* the quiz's questions, or an answer to a question that is not the quiz's.
AnswerPool == {<<"B", ")", " ", "b">>}

UserAnswers(quiz_id) ==
    LET rows == QuestionsOf(quiz_id)
        keys == {str(rows[i].id) : i \in 1..Len(rows)}
    IN  UNION {[ks -> AnswerPool] : ks \in SUBSET keys}
        \cup {[k \in {<<"0">>} |-> <<"B", ")", " ", "b">>]}

\* Lines the parser ignores wherever they stand, and lines it ignores while no
\* question record is open.
IgnoredLines ==
    {<<" ">>, <<"Sure", ",", " ", "here", ":">>, <<"correct answer:", " ", "b">>}

OrphanLines == {OptionLine("B", <<"b">>), CA_Bare, EX_Plain}

\* The completions SpecNoise starts from.
NoiseBases ==
    {<<>>,
     Join(Good_What),
     Join(<<Q_NoText>> \o Good_Why)}

----------------------------------------------------------------------------
\* The requests.  Each handler runs whole.

NoExchange == [handler |-> "none"]

Start ==
    /\ quizzes = <<>>
    /\ questions = <<>>
    /\ session = <<>>
    /\ uploads = {}
    /\ model_calls = 0
    /\ stray = 0
    /\ request = NoExchange
    /\ response = NoExchange

GenerateQuiz ==
    /\ Len(quizzes) < MaxQuizzes
    /\ \E form_files \in FormFiles, num_questions \in NumQuestionsField,
          time_limit \in TimeLimitField,
          reply \in {<<>>} \cup {<<c>> : c \in SmallCompletions} :
            /\ generate_quiz(form_files, num_questions, time_limit, reply)
            /\ request' = [handler |-> "generate_quiz",
                           num_questions |-> num_questions,
                           time_limit |-> time_limit]
    /\ UNCHANGED <<GROQ_API_KEY, stray>>

GetQuizData ==
    /\ \E quiz_id \in QuizIdInputs :
            /\ response' = get_quiz_data(quiz_id)
            /\ request' = [handler |-> "get_quiz_data", quiz_id |-> quiz_id]
    /\ UNCHANGED <<GROQ_API_KEY, quizzes, questions, session, uploads,
                   model_calls, completion, stray>>

QuizLoading ==
    /\ response' = quiz_loading
    /\ request' = [handler |-> "quiz_loading"]
    /\ UNCHANGED <<GROQ_API_KEY, quizzes, questions, session, uploads,
                   model_calls, completion, stray>>

QuizPage ==
    /\ response' = quiz
    /\ request' = [handler |-> "quiz"]
    /\ UNCHANGED <<GROQ_API_KEY, quizzes, questions, session, uploads,
                   model_calls, completion, stray>>

ResultsPage ==
    /\ \E quiz_id \in QuizIdInputs :
            /\ response' = results(quiz_id)
            /\ request' = [handler |-> "results", quiz_id |-> quiz_id]
    /\ UNCHANGED <<GROQ_API_KEY, quizzes, questions, session, uploads,
                   model_calls, completion, stray>>

SubmitQuiz ==
    /\ \E quiz_id \in QuizIdInputs :
         \E user_answers \in UserAnswers(quiz_id) :
            /\ session' = put(session, AnswersKey(quiz_id), user_answers)
            /\ response' = submit_quiz(quiz_id, user_answers)
            /\ request' = [handler |-> "submit_quiz", quiz_id |-> quiz_id,
                           user_answers |-> user_answers]
    /\ UNCHANGED <<GROQ_API_KEY, quizzes, questions, uploads, model_calls,
                   completion, stray>>

GetQuizResults ==
    /\ \E quiz_id \in QuizIdInputs :
            /\ response' = get_quiz_results(quiz_id)
            /\ request' = [handler |-> "get_quiz_results", quiz_id |-> quiz_id]
    /\ UNCHANGED <<GROQ_API_KEY, quizzes, questions, session, uploads,
                   model_calls, completion, stray>>

\* A generation request with a well-formed form, answered by the model
\* service with the completion that is pending.
GenerateFromPending ==
    /\ Len(quizzes) < MaxQuizzes
    /\ generate_quiz(GoodFiles, <<2>>, <<5>>, <<completion>>)
    /\ request' = [handler |-> "generate_quiz",
                   num_questions |-> <<2>>, time_limit |-> <<5>>]
    /\ UNCHANGED <<GROQ_API_KEY, stray>>

\* lines with line put after its first at lines.
InsertLine(lines, at, line) ==
    SubSeq(lines, 1, at) \o <<line>> \o SubSeq(lines, at + 1, Len(lines))

\* The model service adds, for the next request, a line the parser ignores:
\* an IgnoredLines line anywhere, an OrphanLines line before the first
\* question line.
AddStrayLine ==
    /\ quizzes # <<>>
    /\ Len(quizzes) < MaxQuizzes
    /\ stray < MaxStray
    /\ LET lines == Split(completion)
       IN  \E at \in 0..Len(lines) :
            \E line \in IgnoredLines \cup OrphanLines :
                /\ line \in OrphanLines =>
                      \A i \in 1..at : question_number_regex(Strip(lines[i])) = 0
                /\ completion' = Join(InsertLine(lines, at, line))
    /\ stray' = stray + 1
    /\ UNCHANGED <<GROQ_API_KEY, quizzes, questions, session, uploads,
                   model_calls, request, response>>

----------------------------------------------------------------------------
\* Spec: generation requests with any form and any reply of the model service,
\* and the pages that read the session and the store.

Init ==
    /\ Start
    /\ GROQ_API_KEY \in {<<>>, <<"gsk">>}
    /\ completion = <<>>

Next ==
    \/ GenerateQuiz
    \/ GetQuizData
    \/ QuizLoading
    \/ QuizPage
    \/ ResultsPage

Spec == Init /\ [][Next]_vars

\* SpecGrade: quizzes generated from a well-formed form, then answered.

GenerateForGrading ==
    /\ Len(quizzes) < MaxQuizzes
    /\ \E reply \in {<<>>} \cup {<<c>> : c \in GradedCompletions} :
            generate_quiz(GoodFiles, <<2>>, <<5>>, reply)
    /\ request' = [handler |-> "generate_quiz",
                   num_questions |-> <<2>>, time_limit |-> <<5>>]
    /\ UNCHANGED <<GROQ_API_KEY, stray>>

InitGrade ==
    /\ Start
    /\ GROQ_API_KEY = <<"gsk">>
    /\ completion = <<>>

NextGrade ==
    \/ GenerateForGrading
    \/ GetQuizData
    \/ SubmitQuiz
    \/ GetQuizResults

SpecGrade == InitGrade /\ [][NextGrade]_vars

\* SpecParse: the parser and the persistence loop on every completion of
\* BlockCompletions.

InitParse ==
    /\ Start
    /\ GROQ_API_KEY = <<"gsk">>
    /\ completion \in BlockCompletions

NextParse ==
    \/ GenerateFromPending
    \/ GetQuizData

SpecParse == InitParse /\ [][NextParse]_vars

\* SpecNoise: the same completion with and without lines the parser ignores.

InitNoise ==
    /\ Start
    /\ GROQ_API_KEY = <<"gsk">>
    /\ completion \in NoiseBases

NextNoise ==
    \/ GenerateFromPending
    \/ AddStrayLine

SpecNoise == InitNoise /\ [][NextNoise]_vars

----------------------------------------------------------------------------
\* How the claims read a completion: its lines, trimmed, blank ones dropped;
\* a block is a question line and the lines up to the next question line.

TrimmedLines(text) ==
    LET lines == Split(text)
    IN  SelectSeq([i \in 1..Len(lines) |-> Strip(lines[i])],
                  LAMBDA l : l # <<>>)

\* Where the "digits, period" prefix of a question line ends, 0 for other lines.
NumberEnd(line) ==
    LET ends == {k \in 2..Len(line) :
                    line[k] = "." /\ \A j \in 1..(k - 1) : line[j] \in Digits}
    IN  IF ends = {} THEN 0 ELSE CHOOSE k \in ends : TRUE

IsQuestionLine(line) == NumberEnd(line) > 0
QuestionText(line) == Strip(SubSeq(line, NumberEnd(line) + 1, Len(line)))
IsOptionLine(line, letter) == Len(line) >= 2 /\ line[1] = letter /\ line[2] = ")"
IsAnyOptionLine(line) == \E letter \in OptionLetters : IsOptionLine(line, letter)
IsMarkerLine(line, marker) == line # <<>> /\ line[1] = marker
\* The remainder of a marker line after the marker, trimmed.
ValueOf(line) == Strip(Tail(line))

\* A completion of N blocks of seven lines: question, A) to D), correct
\* answer, explanation, the values non-empty.
WellFormed(text) ==
    LET ls == TrimmedLines(text)
    IN  /\ Len(ls) % 7 = 0
        /\ \A b \in 0..((Len(ls) \div 7) - 1) :
            LET o == 7 * b
            IN  /\ IsQuestionLine(ls[o + 1]) /\ QuestionText(ls[o + 1]) # <<>>
                /\ IsOptionLine(ls[o + 2], "A") /\ IsOptionLine(ls[o + 3], "B")
                /\ IsOptionLine(ls[o + 4], "C") /\ IsOptionLine(ls[o + 5], "D")
                /\ IsMarkerLine(ls[o + 6], CorrectAnswerMarker)
                /\ ValueOf(ls[o + 6]) # <<>>
                /\ IsMarkerLine(ls[o + 7], ExplanationMarker)
                /\ ValueOf(ls[o + 7]) # <<>>

\* The fields of block b (from 1) of a well-formed completion.
WellFormedBlock(text, b) ==
    LET ls == TrimmedLines(text)
        o == 7 * (b - 1)
    IN  [question_text |-> QuestionText(ls[o + 1]),
         options |-> SubSeq(ls, o + 2, o + 5),
         correct_answer |-> ValueOf(ls[o + 6]),
         explanation |-> ValueOf(ls[o + 7])]

\* A completion in the format of the prompt: N blocks of six lines, question,
\* A) to D), correct answer, and nothing else.
PromptFormat(text) ==
    LET ls == TrimmedLines(text)
    IN  /\ Len(ls) % 6 = 0
        /\ \A b \in 0..((Len(ls) \div 6) - 1) :
            LET o == 6 * b
            IN  /\ IsQuestionLine(ls[o + 1]) /\ QuestionText(ls[o + 1]) # <<>>
                /\ IsOptionLine(ls[o + 2], "A") /\ IsOptionLine(ls[o + 3], "B")
                /\ IsOptionLine(ls[o + 4], "C") /\ IsOptionLine(ls[o + 5], "D")
                /\ IsMarkerLine(ls[o + 6], CorrectAnswerMarker)
                /\ ValueOf(ls[o + 6]) # <<>>

\* The blocks of any completion: for each question line, its text and the
\* lines that follow it up to the next question line.
BlocksOf(text) ==
    LET ls == TrimmedLines(text)
        starts == {i \in 1..Len(ls) : IsQuestionLine(ls[i])}
        after(i) == {j \in starts : j > i}
        last(i) == IF after(i) = {} THEN Len(ls)
                   ELSE (CHOOSE j \in after(i) : \A k \in after(i) : j <= k) - 1
        ordered == SelectSeq([i \in 1..Len(ls) |-> i], LAMBDA i : i \in starts)
    IN  [n \in 1..Len(ordered) |->
            [question_text |-> QuestionText(ls[ordered[n]]),
             lines |-> SubSeq(ls, ordered[n] + 1, last(ordered[n]))]]

OptionLinesIn(block) == SelectSeq(block.lines, IsAnyOptionLine)
HasValue(block, marker) ==
    \E i \in 1..Len(block.lines) :
        IsMarkerLine(block.lines[i], marker) /\ ValueOf(block.lines[i]) # <<>>

\* A block that has everything a Question needs.
CompleteBlock(block) ==
    /\ Len(OptionLinesIn(block)) = 4
    /\ block.question_text # <<>>
    /\ HasValue(block, CorrectAnswerMarker)
    /\ HasValue(block, ExplanationMarker)

\* a can be had from b by dropping elements.
RECURSIVE IsSubsequence(_, _)
IsSubsequence(a, b) ==
    IF a = <<>> THEN TRUE
    ELSE IF b = <<>> THEN FALSE
    ELSE IF Head(a) = Head(b) THEN IsSubsequence(Tail(a), Tail(b))
    ELSE IsSubsequence(a, Tail(b))

GenerateSucceeded ==
    response = Redirect("generate_quiz", "quiz_loading")

\* The content of stored rows, without the keys the store assigned.
ContentOf(rows) ==
    [i \in 1..Len(rows) |->
        [question_text |-> rows[i].question_text,
         options |-> <<rows[i].option_a, rows[i].option_b,
                       rows[i].option_c, rows[i].option_d>>,
         correct_answer |-> rows[i].correct_answer,
         explanation |-> rows[i].explanation]]

WellFormedBlocks(text) ==
    [b \in 1..(Len(TrimmedLines(text)) \div 7) |-> WellFormedBlock(text, b)]

----------------------------------------------------------------------------
\* C1 (SpecParse): when the completion is N well-formed blocks, every quiz
\* generated from it holds exactly N Questions, in completion order, with the
\* question text, the four option lines, the correct answer and the
\* explanation of its block, and get_quiz_data returns the same.
C1_RoundTrip ==
    WellFormed(completion) =>
        /\ \A id \in QuizIds :
                ContentOf(QuestionsOf(id)) = WellFormedBlocks(completion)
        /\ (response.handler = "get_quiz_data" /\ response.status = 200) =>
                [i \in 1..Len(response.body.questions) |->
                    [question_text |-> response.body.questions[i].question_text,
                     options |-> response.body.questions[i].options,
                     correct_answer |-> response.body.questions[i].correct_answer,
                     explanation |-> response.body.questions[i].explanation]]
                = WellFormedBlocks(completion)

\* C2 (SpecParse): every stored Question has a non-empty question text,
\* correct answer and explanation and four option lines, and the stored
\* Questions of a quiz are, in order, blocks of the completion that hold
\* exactly four option lines, a question text, a correct answer and an
\* explanation; no block with fewer or more option lines is stored.
C2_OnlyCompleteBlocksPersisted ==
    \A id \in QuizIds :
        LET rows == ContentOf(QuestionsOf(id))
            complete == SelectSeq(BlocksOf(completion), CompleteBlock)
        IN  /\ \A i \in 1..Len(rows) :
                /\ rows[i].question_text # <<>>
                /\ rows[i].correct_answer # <<>>
                /\ rows[i].explanation # <<>>
                /\ \A k \in 1..4 : IsAnyOptionLine(rows[i].options[k])
            /\ IsSubsequence(
                    [i \in 1..Len(rows) |->
                        [question_text |-> rows[i].question_text,
                         options |-> rows[i].options]],
                    [j \in 1..Len(complete) |->
                        [question_text |-> complete[j].question_text,
                         options |-> OptionLinesIn(complete[j])]])

\* A quiz that kept one block of a completion and dropped a block with more
\* than four option lines.
C2_Witness ==
    /\ \E id \in QuizIds : Len(QuestionsOf(id)) = 1
    /\ \E j \in 1..Len(BlocksOf(completion)) :
            Len(OptionLinesIn(BlocksOf(completion)[j])) > 4

\* C3 (SpecParse): the correct answer of every stored Question is one of its
\* four stored option strings.
C3_CorrectAnswerIsAnOption ==
    \A i \in 1..Len(questions) :
        questions[i].correct_answer \in
            {questions[i].option_a, questions[i].option_b,
             questions[i].option_c, questions[i].option_d}

\* C9 (SpecParse): a completion of N blocks in the format of the prompt gives
\* every quiz generated from it N Questions.
C9_PromptFormatPersisted ==
    PromptFormat(completion) =>
        \A id \in QuizIds :
            Len(QuestionsOf(id)) = Len(TrimmedLines(completion)) \div 6

----------------------------------------------------------------------------
\* The model service was asked and raised.
ModelRaised ==
    /\ response.handler = "generate_quiz"
    /\ response.status = 500
    /\ response.body[1] \in {"Error: ", "An error occurred during quiz generation: "}

\* The model service was asked and returned a completion.
ModelReturned ==
    /\ response.handler = "generate_quiz"
    /\ model_calls > 0
    /\ ~ModelRaised

\* C4 (Spec): a generation request whose form carries both numbers and whose
\* model call returned a completion ends in the redirect to quiz_loading,
\* with a new Quiz holding exactly the complete blocks of the completion
\* (none when every block fails or no question line is found) and with the
\* session's quiz id, question count and time limit set to the request's.
C4_MalformedBlocksAreNoError ==
    (ModelReturned /\ request.num_questions # <<>> /\ request.time_limit # <<>>) =>
        /\ GenerateSucceeded
        /\ quizzes # <<>>
        /\ Len(QuestionsOf(Len(quizzes)))
                = Len(SelectSeq(BlocksOf(completion), CompleteBlock))
        /\ get(session, <<"quiz_id">>) = <<Len(quizzes)>>
        /\ get(session, <<"num_questions">>) = request.num_questions
        /\ get(session, <<"time_limit">>) = request.time_limit

\* A successful request whose completion had blocks and none of them complete.
C4_Witness ==
    /\ GenerateSucceeded
    /\ BlocksOf(completion) # <<>>
    /\ QuestionsOf(Len(quizzes)) = <<>>
    /\ get(session, <<"quiz_id">>) = <<Len(quizzes)>>

\* C7 (Spec): a generation request answered 400 for a disallowed file, or 500
\* because the model client raised, leaves the Quiz and Question tables and
\* the session as they were; no generation request asks the model service
\* more than once, and one answered 400 does not ask it.
C7_FailedRequestChangesNothing ==
    [][ /\ response'.handler = "generate_quiz" => model_calls' <= 1
        /\ (response'.handler = "generate_quiz" /\ response'.status = 400) =>
                model_calls' = 0
        /\ ((response'.handler = "generate_quiz" /\ response'.status = 400)
                \/ ModelRaised') =>
                /\ quizzes' = quizzes
                /\ questions' = questions
                /\ session' = session ]_vars

\* The model client raised after a quiz had been stored and the session set.
C7_Witness ==
    /\ ModelRaised
    /\ model_calls = 1
    /\ quizzes # <<>>
    /\ <<"quiz_id">> \in DOMAIN session

GradingFields ==
    {"score", "total_questions", "percentage_score", "results_breakdown"}

\* C8 (SpecGrade): get_quiz_data, submit_quiz and get_quiz_results, asked for
\* a quiz identifier that is not in the store, answer 404 and return no
\* grading data.
C8_UnknownQuizIsNotFound ==
    (/\ response.handler \in {"get_quiz_data", "submit_quiz", "get_quiz_results"}
     /\ request.quiz_id \notin QuizIds) =>
        /\ response.status = 404
        /\ DOMAIN response.body \cap GradingFields = {}

\* submit_quiz answered 404 while the store holds quizzes.
C8_Witness ==
    /\ response.handler = "submit_quiz"
    /\ request.quiz_id \notin QuizIds
    /\ quizzes # <<>>
    /\ response.status = 404

\* The questions of a quiz whose submitted answer is present and equal to
\* the stored correct answer.
CorrectlyAnswered(rows, user_answers) ==
    {i \in 1..Len(rows) :
        /\ str(rows[i].id) \in DOMAIN user_answers
        /\ user_answers[str(rows[i].id)] = rows[i].correct_answer}

WithoutExplanation(entry) ==
    [f \in DOMAIN entry \ {"explanation"} |-> entry[f]]

\* C6 (SpecGrade): get_quiz_results for a stored quiz whose answers the
\* session holds returns what submit_quiz returns for these answers: the same
\* fields, the same quiz_id, score, total_questions and percentage_score, and
\* the same breakdown entries but for the explanation; without recorded
\* answers the score is 0 and no entry is correct.
C6_ResultsRepeatSubmit ==
    (/\ response.handler = "get_quiz_results"
     /\ request.quiz_id \in QuizIds) =>
        LET key == AnswersKey(request.quiz_id)
            body == response.body
        IN  IF key \in DOMAIN session THEN
                LET sub == submit_quiz(request.quiz_id, session[key]).body
                IN  /\ DOMAIN sub = DOMAIN body
                    /\ sub.quiz_id = body.quiz_id
                    /\ sub.score = body.score
                    /\ sub.total_questions = body.total_questions
                    /\ sub.percentage_score = body.percentage_score
                    /\ sub.results_breakdown =
                        [i \in 1..Len(body.results_breakdown) |->
                            WithoutExplanation(body.results_breakdown[i])]
            ELSE
                /\ body.score = 0
                /\ \A i \in 1..Len(body.results_breakdown) :
                        ~body.results_breakdown[i].is_correct

\* C10 (SpecNoise): whatever lines the loop has read, a blank line, a line
\* that matches no pattern, and an option, 'Correct Answer:' or
\* 'Explanation:' line met while no record is open leave the open record and
\* the collected records as they are; and every quiz generated from the
\* completion with such lines added holds the Questions of the quiz generated
\* from it without them.
C10_IgnoredLinesChangeNothing ==
    /\ LET lines == Split(Strip(completion))
       IN  \A k \in 0..Len(lines) :
            LET st == ParseLines(NewParse, SubSeq(lines, 1, k))
            IN  /\ \A line \in IgnoredLines \cup {<<>>} : ParseLine(st, line) = st
                /\ st.current_question = <<>> =>
                        \A line \in OrphanLines : ParseLine(st, line) = st
    /\ \A id \in QuizIds :
            ContentOf(QuestionsOf(id)) = ContentOf(QuestionsOf(1))

\* A second quiz with Questions, generated after lines were added.
C10_Witness ==
    /\ stray = MaxStray
    /\ Len(quizzes) = MaxQuizzes
    /\ QuestionsOf(Len(quizzes)) # <<>>

====
